---- MODULE Spec2Model ----
(***************************************************************************)
(* Lifecycle of the TTS bot process (src/main.py): TTSBot.start run as      *)
(* bot_task, bot.wait_until_ready run as ready_task, the race between the   *)
(* two in _real_main, the finally block that sends the shutdown notice and  *)
(* releases pool, cache_db and the connection under one deadline, and the   *)
(* module-level asyncio.run(main()) with its KeyboardInterrupt handler.     *)
(* One action is one step of one task between two suspension points of the  *)
(* single-threaded event loop.                                              *)
(***************************************************************************)
EXTENDS Naturals, Sequences, FiniteSets

\* Number of modules found in the "cogs" folder and in the "extensions" folder.
NCogs == 2
NExts == 2

\* timeout=5 of asyncio.wait_for around the release gather.
Timeout == 5

VARIABLES
    logsConfigured, \* config["Webhook URLs"] has a "logs" entry
    mainpc,         \* await at which _real_main is suspended, or "exited"
    pending,        \* exception in flight while the finally block runs
    exitKind,       \* how _real_main ended
    outcome,        \* what the race at asyncio.wait resolved to
    botpc,          \* await at which bot_task (TTSBot.start) is suspended
    botResult,      \* result of bot_task once done
    acq,            \* the two acquisitions passed to asyncio.gather in start
    held,           \* backend handles: none, held, released
    channels,       \* bot.channels has been filled
    activated,      \* modules whose load_extension was called, in call order
    loadFailed,     \* the module whose load_extension raised, 0 if none
    notices,        \* messages delivered to the logs webhook, in order
    user,           \* bot.user is set
    readyEvt,       \* the client's ready event is set
    readypc,        \* ready_task: idle, waiting, done, cancelled
    settled,        \* tasks that finished by themselves, in finishing order
    conn,           \* connection to Discord: none, open, closed
    rel,            \* the three close() calls passed to asyncio.gather
    elapsed,        \* time units since wait_for started
    relStarts,      \* number of times the release gather was started
    intr,           \* KeyboardInterrupts received
    procExit,       \* running, clean, forced, crash
    dispatch        \* the last message given to process_commands, and its fate

vars == <<logsConfigured, mainpc, pending, exitKind, outcome, botpc, botResult,
          acq, held, channels, activated, loadFailed, notices, user, readyEvt,
          readypc, settled, conn, rel, elapsed, relStarts, intr, procExit,
          dispatch>>

Acquisitions == {"pool", "gtts"}
Handles == {"cache_db", "pool", "gtts"}
Releases == {"pool", "cache_db", "conn"}

CogList == [i \in 1..NCogs |-> i]
ExtList == [i \in 1..NExts |-> NCogs + i]
Modules == 1..(NCogs + NExts)

Range(s) == {s[i] : i \in DOMAIN s}

----------------------------------------------------------------------------
\* asyncio.gather without return_exceptions: the awaiting coroutine resumes
\* with the results once every child succeeded, and with the first exception
\* as soon as one child raised (the other children keep running).
GatherRaises(f) == \E x \in DOMAIN f : f[x] = "failed"

GatherReturns(f) == \A x \in DOMAIN f : f[x] = "ok"

GatherFirstCompleted(f) == \E x \in DOMAIN f : f[x] # "pending"

GatherSettled(f) == GatherRaises(f) \/ GatherReturns(f)

\* load_extensions: load_extension on each module of the folder in listing
\* order; the first one that raises ends the loop and the exception leaves
\* load_extensions.  failing is the set of modules whose setup raises.
RECURSIVE LoadFrom(_, _, _)
LoadFrom(list, i, failing) ==
    IF i > Len(list) THEN <<>>
    ELSE IF list[i] \in failing THEN <<list[i]>>
    ELSE <<list[i]>> \o LoadFrom(list, i + 1, failing)

LoadExtensionsKeepGoing(list, failing) == list

LoadExtensions(list, failing) == LoadFrom(list, 1, failing)

Raised(called, failing) == Range(called) \cap failing # {}

\* if bot_task in done: ... return; otherwise the ready branch.
RaceOutcomeInverted(botDone, readyDone) ==
    IF ~botDone THEN "FailedBeforeReady" ELSE "Ready"

RaceOutcome(botDone, readyDone) ==
    IF botDone THEN "FailedBeforeReady" ELSE "Ready"

\* finally: if not bot.user: return
NeverSkipShutdown(u) == FALSE

SkipShutdown(u) == ~u

\* Where a CancelledError thrown into _real_main at await pc goes: inside the
\* try block the finally block runs; before the try block and inside the
\* finally block it leaves _real_main.
CancelAlwaysFinally(pc) == "finally"

CancelTarget(pc) ==
    IF pc \in {"wait", "send_ready", "await_bot"} THEN "finally" ELSE "raise"

\* wait_for(..., timeout=5)
NoDeadline == FALSE

DeadlineExpired == elapsed >= Timeout

\* What a message is: whether its author is a bot, and its guild (none for a
\* private message, else an available or an unavailable guild); stored is
\* what the settings store holds for that guild.
Guilds == {"none", "available", "unavailable"}
StoredPrefixes == {"unset", "-", "!"}
Messages == [authorBot : BOOLEAN, guild : Guilds, stored : StoredPrefixes]

\* bot.settings.get(guild, ["prefix"]): the stored trigger, the default one
\* when the guild has no stored configuration.
SettingsGet(stored) == IF stored = "unset" THEN <<"-">> ELSE <<stored>>

\* prefix(bot, message)
PrefixAlwaysLookup(m) == SettingsGet(m.stored)[1]

Prefix(m) ==
    IF m.guild # "none" THEN SettingsGet(m.stored)[1] ELSE "-"

\* only_avaliable(ctx), the check added to the bot
AlwaysAvaliable(guild) == TRUE

OnlyAvaliable(guild) == IF guild # "none" THEN guild # "unavailable" ELSE TRUE

\* process_commands(message): nothing for a bot author; else the context is
\* built (which resolves the prefix) and invoke(ctx) calls the command only
\* when the checks added to the bot pass.
ProcessCommandsOf(m) ==
    IF m.authorBot
    THEN [seen |-> TRUE, msg |-> m, ctx |-> FALSE, prefix |-> "",
          invoked |-> FALSE]
    ELSE [seen |-> TRUE, msg |-> m, ctx |-> TRUE, prefix |-> Prefix(m),
          invoked |-> OnlyAvaliable(m.guild)]

NoDispatch ==
    [seen |-> FALSE,
     msg |-> [authorBot |-> FALSE, guild |-> "none", stored |-> "unset"],
     ctx |-> FALSE, prefix |-> "", invoked |-> FALSE]

----------------------------------------------------------------------------
Init ==
    /\ logsConfigured \in BOOLEAN
    /\ mainpc = "early"
    /\ pending = "none"
    /\ exitKind = "none"
    /\ outcome = "Starting"
    /\ botpc = "idle"
    /\ botResult = "none"
    /\ acq = [a \in Acquisitions |-> "idle"]
    /\ held = [h \in Handles |-> "none"]
    /\ channels = FALSE
    /\ activated = <<>>
    /\ loadFailed = 0
    /\ notices = <<>>
    /\ user = FALSE
    /\ readyEvt = FALSE
    /\ readypc = "idle"
    /\ settled = <<>>
    /\ conn = "none"
    /\ rel = [r \in Releases |-> "idle"]
    /\ elapsed = 0
    /\ relStarts = 0
    /\ intr = 0
    /\ procExit = "running"
    /\ dispatch = NoDispatch

Running == procExit = "running"

\* The finally block of _real_main up to its first await, entered with p in
\* flight ("none": normal completion, return or a handled exception).
EnterFinally(p) ==
    IF SkipShutdown(user)
    THEN /\ mainpc' = "exited"
         /\ exitKind' = "return"
         /\ pending' = "none"
    ELSE /\ mainpc' = "send_shutdown"
         /\ pending' = p
         /\ UNCHANGED exitKind

\* _real_main ends with the exception e.
Leave(e) ==
    /\ mainpc' = "exited"
    /\ exitKind' = e
    /\ pending' = "none"

\* A step of TTSBot.start: bot_task is done when the coroutine has returned
\* or raised.
BotSettles ==
    settled' = IF botpc' = "done" THEN Append(settled, "bot_task") ELSE settled

----------------------------------------------------------------------------
\* _real_main up to asyncio.wait: do_early_updates, then both tasks created.
MainEarly ==
    /\ Running /\ mainpc = "early"
    /\ \E ok \in BOOLEAN :
         IF ok
         THEN /\ mainpc' = "wait"
              /\ botpc' = "created"
              /\ readypc' = "waiting"
              /\ UNCHANGED <<exitKind, pending>>
         ELSE /\ Leave("error")
              /\ UNCHANGED <<botpc, readypc>>
    /\ UNCHANGED <<dispatch, settled, logsConfigured, outcome, botResult, acq, held, channels,
                   activated, loadFailed, notices, user, readyEvt, conn, rel,
                   elapsed, relStarts, intr, procExit>>

\* TTSBot.start up to the await of gather: cache_db made, both acquisitions
\* launched.
BotStart ==
    /\ Running /\ botpc = "created"
    /\ \E ok \in BOOLEAN :
         IF ok
         THEN /\ held' = [held EXCEPT !["cache_db"] = "held"]
              /\ acq' = [a \in Acquisitions |-> "pending"]
              /\ botpc' = "gather"
              /\ UNCHANGED botResult
         ELSE /\ botpc' = "done"
              /\ botResult' = "error"
              /\ UNCHANGED <<held, acq>>
    /\ BotSettles
    /\ UNCHANGED <<dispatch, logsConfigured, mainpc, pending, exitKind, outcome, channels,
                   activated, loadFailed, notices, user, readyEvt, readypc,
                   conn, rel, elapsed, relStarts, intr, procExit>>

\* asyncpg.create_pool or asyncgTTS.setup settles.
AcquireSettle ==
    /\ Running
    /\ \E a \in Acquisitions, ok \in BOOLEAN :
         /\ acq[a] = "pending"
         /\ acq' = [acq EXCEPT ![a] = IF ok THEN "ok" ELSE "failed"]
         /\ held' = IF ok THEN [held EXCEPT ![a] = "held"] ELSE held
    /\ UNCHANGED <<dispatch, settled, logsConfigured, mainpc, pending, exitKind, outcome, botpc,
                   botResult, channels, activated, loadFailed, notices, user,
                   readyEvt, readypc, conn, rel, elapsed, relStarts, intr,
                   procExit>>

\* TTSBot.start from the gather's result to the await of the starting notice:
\* the webhooks, both load_extensions calls, the lookup of channels["logs"].
BotAfterGather ==
    /\ Running /\ botpc = "gather" /\ GatherSettled(acq)
    /\ IF GatherRaises(acq)
       THEN /\ botpc' = "done"
            /\ botResult' = "error"
            /\ UNCHANGED <<channels, activated, loadFailed>>
       ELSE \E failing \in SUBSET Modules :
              LET cogs == LoadExtensions(CogList, failing)
                  exts == IF Raised(cogs, failing) THEN <<>>
                          ELSE LoadExtensions(ExtList, failing)
                  called == cogs \o exts
              IN /\ channels' = TRUE
                 /\ activated' = called
                 /\ loadFailed' = IF Raised(called, failing)
                                  THEN CHOOSE m \in Range(called) : m \in failing
                                  ELSE 0
                 /\ IF Raised(called, failing) \/ ~logsConfigured
                    THEN botpc' = "done" /\ botResult' = "error"
                    ELSE botpc' = "send_start" /\ UNCHANGED botResult
    /\ BotSettles
    /\ UNCHANGED <<dispatch, logsConfigured, mainpc, pending, exitKind, outcome, acq, held,
                   notices, user, readyEvt, readypc, conn, rel, elapsed,
                   relStarts, intr, procExit>>

\* await self.channels["logs"].send("Starting TTS Bot!") completes.
BotSendStart ==
    /\ Running /\ botpc = "send_start"
    /\ \E ok \in BOOLEAN :
         IF ok
         THEN /\ notices' = Append(notices, "starting")
              /\ botpc' = "updates"
              /\ UNCHANGED botResult
         ELSE /\ botpc' = "done"
              /\ botResult' = "error"
              /\ UNCHANGED notices
    /\ BotSettles
    /\ UNCHANGED <<dispatch, logsConfigured, mainpc, pending, exitKind, outcome, acq, held,
                   channels, activated, loadFailed, user, readyEvt, readypc,
                   conn, rel, elapsed, relStarts, intr, procExit>>

\* await automatic_update.do_normal_updates(self) completes; super().start
\* begins to log in and connect.
BotUpdates ==
    /\ Running /\ botpc = "updates"
    /\ \E ok \in BOOLEAN :
         IF ok
         THEN /\ botpc' = "serve"
              /\ conn' = "open"
              /\ UNCHANGED botResult
         ELSE /\ botpc' = "done"
              /\ botResult' = "error"
              /\ UNCHANGED conn
    /\ BotSettles
    /\ UNCHANGED <<dispatch, logsConfigured, mainpc, pending, exitKind, outcome, acq, held,
                   channels, activated, loadFailed, notices, user, readyEvt,
                   readypc, rel, elapsed, relStarts, intr, procExit>>

\* Inside super().start: the client learns its own user.
BotIdentity ==
    /\ Running /\ botpc = "serve" /\ ~user
    /\ user' = TRUE
    /\ UNCHANGED <<dispatch, settled, logsConfigured, mainpc, pending, exitKind, outcome, botpc,
                   botResult, acq, held, channels, activated, loadFailed,
                   notices, readyEvt, readypc, conn, rel, elapsed, relStarts,
                   intr, procExit>>

\* Inside super().start: the handshake is complete, the ready event is set.
BotReady ==
    /\ Running /\ botpc = "serve" /\ user /\ ~readyEvt /\ conn = "open"
    /\ readyEvt' = TRUE
    /\ UNCHANGED <<dispatch, settled, logsConfigured, mainpc, pending, exitKind, outcome, botpc,
                   botResult, acq, held, channels, activated, loadFailed,
                   notices, user, readypc, conn, rel, elapsed, relStarts, intr,
                   procExit>>

\* super().start returns (the client was closed) or raises: bot_task is done.
BotServeEnd ==
    /\ Running /\ botpc = "serve"
    /\ \E r \in {"ok", "error"} :
         /\ botResult' = r
         /\ conn' = IF r = "ok" THEN "closed" ELSE conn
    /\ botpc' = "done"
    /\ BotSettles
    /\ UNCHANGED <<dispatch, logsConfigured, mainpc, pending, exitKind, outcome, acq, held,
                   channels, activated, loadFailed, notices, user, readyEvt,
                   readypc, rel, elapsed, relStarts, intr, procExit>>

\* A message arrives while the client is connected: process_commands runs.
ProcessCommands ==
    /\ Running /\ botpc = "serve" /\ user /\ conn = "open"
    /\ \E m \in Messages : dispatch' = ProcessCommandsOf(m)
    /\ UNCHANGED <<settled, logsConfigured, mainpc, pending, exitKind, outcome,
                   botpc, botResult, acq, held, channels, activated, loadFailed,
                   notices, user, readyEvt, readypc, conn, rel, elapsed,
                   relStarts, intr, procExit>>

\* ready_task: wait_until_ready returns once the ready event is set.
ReadyTaskDone ==
    /\ Running /\ readypc = "waiting" /\ readyEvt
    /\ readypc' = "done"
    /\ settled' = Append(settled, "ready_task")
    /\ UNCHANGED <<dispatch, logsConfigured, mainpc, pending, exitKind, outcome, botpc,
                   botResult, acq, held, channels, activated, loadFailed,
                   notices, user, readyEvt, conn, rel, elapsed, relStarts, intr,
                   procExit>>

\* _real_main resumes from asyncio.wait(FIRST_COMPLETED) and inspects done.
MainResumeWait ==
    /\ Running /\ mainpc = "wait"
    /\ botpc = "done" \/ readypc = "done"
    /\ outcome' = RaceOutcome(botpc = "done", readypc = "done")
    /\ IF outcome' = "FailedBeforeReady"
       THEN EnterFinally("none")
       ELSE /\ mainpc' = "send_ready"
            /\ UNCHANGED <<pending, exitKind>>
    /\ UNCHANGED <<dispatch, settled, logsConfigured, botpc, botResult, acq, held, channels,
                   activated, loadFailed, notices, user, readyEvt, readypc,
                   conn, rel, elapsed, relStarts, intr, procExit>>

\* await bot.channels["logs"].send("Started and ready! ...") completes; an
\* exception is caught by except Exception and the finally block runs.
MainSendReady ==
    /\ Running /\ mainpc = "send_ready"
    /\ \E ok \in BOOLEAN :
         IF ok
         THEN /\ notices' = Append(notices, "ready")
              /\ mainpc' = "await_bot"
              /\ UNCHANGED <<pending, exitKind>>
         ELSE /\ EnterFinally("none")
              /\ UNCHANGED notices
    /\ UNCHANGED <<dispatch, settled, logsConfigured, outcome, botpc, botResult, acq, held,
                   channels, activated, loadFailed, user, readyEvt, readypc,
                   conn, rel, elapsed, relStarts, intr, procExit>>

\* await bot_task completes.
MainAwaitBotReports ==
    /\ Running /\ mainpc = "await_bot" /\ botpc = "done"
    /\ outcome' = "FailedBeforeReady"
    /\ EnterFinally(IF botResult = "cancelled" THEN "cancelled" ELSE "none")
    /\ UNCHANGED <<dispatch, settled, logsConfigured, botpc, botResult, acq,
                   held, channels, activated, loadFailed, notices, user,
                   readyEvt, readypc, conn, rel, elapsed, relStarts, intr,
                   procExit>>

MainAwaitBot ==
    /\ Running /\ mainpc = "await_bot" /\ botpc = "done"
    /\ EnterFinally(IF botResult = "cancelled" THEN "cancelled" ELSE "none")
    /\ UNCHANGED <<dispatch, settled, logsConfigured, outcome, botpc, botResult, acq, held,
                   channels, activated, loadFailed, notices, user, readyEvt,
                   readypc, conn, rel, elapsed, relStarts, intr, procExit>>

\* await bot.channels["logs"].send("... is shutting down.") completes; then
\* the three close() calls are gathered under wait_for.
MainSendShutdown ==
    /\ Running /\ mainpc = "send_shutdown"
    /\ \E ok \in BOOLEAN :
         IF ok
         THEN /\ notices' = Append(notices, "shutdown")
              /\ mainpc' = "release"
              /\ rel' = [r \in Releases |-> "pending"]
              /\ elapsed' = 0
              /\ relStarts' = relStarts + 1
              /\ UNCHANGED <<pending, exitKind>>
         ELSE /\ Leave("error")
              /\ UNCHANGED <<notices, rel, elapsed, relStarts>>
    /\ UNCHANGED <<dispatch, settled, logsConfigured, outcome, botpc, botResult, acq, held,
                   channels, activated, loadFailed, user, readyEvt, readypc,
                   conn, intr, procExit>>

\* One of pool.close(), cache_db.close(), bot.close() returns or raises.
ReleaseSettle ==
    /\ Running
    /\ \E r \in Releases, ok \in BOOLEAN :
         /\ rel[r] = "pending"
         /\ rel' = [rel EXCEPT ![r] = IF ok THEN "ok" ELSE "failed"]
         /\ held' = IF ok /\ r \in Handles
                    THEN [held EXCEPT ![r] = "released"] ELSE held
         /\ conn' = IF ok /\ r = "conn" THEN "closed" ELSE conn
    /\ UNCHANGED <<dispatch, settled, logsConfigured, mainpc, pending, exitKind, outcome, botpc,
                   botResult, acq, channels, activated, loadFailed, notices,
                   user, readyEvt, readypc, elapsed, relStarts, intr, procExit>>

\* Time passes while wait_for is pending.
Tick ==
    /\ Running /\ mainpc = "release" /\ elapsed < Timeout
    /\ elapsed' = elapsed + 1
    /\ UNCHANGED <<dispatch, settled, logsConfigured, mainpc, pending, exitKind, outcome, botpc,
                   botResult, acq, held, channels, activated, loadFailed,
                   notices, user, readyEvt, readypc, conn, rel, relStarts, intr,
                   procExit>>

\* The gather of the releases settles: _real_main resumes from wait_for and
\* the finally block ends, or the first exception leaves it.
MainReleaseDone ==
    /\ Running /\ mainpc = "release" /\ GatherSettled(rel)
    /\ IF GatherRaises(rel)
       THEN Leave("error")
       ELSE Leave(IF pending = "cancelled" THEN "cancelled" ELSE "return")
    /\ UNCHANGED <<dispatch, settled, logsConfigured, outcome, botpc, botResult, acq, held,
                   channels, activated, loadFailed, notices, user, readyEvt,
                   readypc, conn, rel, elapsed, relStarts, intr, procExit>>

\* The deadline of wait_for expires: the gather and its pending children are
\* cancelled and asyncio.TimeoutError leaves _real_main.
ReleaseTimeout ==
    /\ Running /\ mainpc = "release" /\ DeadlineExpired
    /\ rel' = [r \in Releases |-> IF rel[r] = "pending" THEN "cancelled"
                                  ELSE rel[r]]
    /\ Leave("timeout")
    /\ UNCHANGED <<dispatch, settled, logsConfigured, outcome, botpc, botResult, acq, held,
                   channels, activated, loadFailed, notices, user, readyEvt,
                   readypc, conn, elapsed, relStarts, intr, procExit>>

\* Every task other than _real_main is cancelled.
CancelOthers ==
    /\ botpc' = IF botpc \in {"idle", "done"} THEN botpc ELSE "done"
    /\ botResult' = IF botpc \in {"idle", "done"} THEN botResult ELSE "cancelled"
    /\ readypc' = IF readypc = "waiting" THEN "cancelled" ELSE readypc
    /\ acq' = [a \in Acquisitions |-> IF acq[a] = "pending" THEN "cancelled"
                                      ELSE acq[a]]

\* KeyboardInterrupt while asyncio.run(main()) runs: every task is cancelled
\* and the loop runs until they finish; a second one ends that too.
Interrupt ==
    /\ Running /\ intr < 2
    /\ intr' = intr + 1
    /\ IF intr = 0
       THEN /\ CancelOthers
            /\ UNCHANGED procExit
            /\ IF mainpc = "exited"
               THEN UNCHANGED <<mainpc, pending, exitKind, rel>>
               ELSE IF CancelTarget(mainpc) = "finally"
               THEN EnterFinally("cancelled") /\ UNCHANGED rel
               ELSE /\ Leave("cancelled")
                    /\ rel' = [r \in Releases |->
                                 IF rel[r] = "pending" THEN "cancelled"
                                 ELSE rel[r]]
       ELSE /\ procExit' = "forced"
            /\ UNCHANGED <<mainpc, pending, exitKind, rel, botpc, botResult,
                           readypc, acq>>
    /\ UNCHANGED <<dispatch, settled, logsConfigured, outcome, held, channels, activated,
                   loadFailed, notices, user, readyEvt, conn, elapsed,
                   relStarts>>

\* _real_main is over: asyncio.run cancels what is left, closes the loop, and
\* the module's try/except ends the process.
ProcExit ==
    /\ Running /\ mainpc = "exited"
    /\ CancelOthers
    /\ rel' = [r \in Releases |-> IF rel[r] = "pending" THEN "cancelled"
                                  ELSE rel[r]]
    /\ \E caught \in BOOLEAN :
         procExit' = IF intr > 0 THEN "forced"
                     ELSE IF exitKind = "return" THEN "clean"
                     ELSE IF exitKind = "error" /\ caught THEN "forced"
                     ELSE "crash"
    /\ UNCHANGED <<dispatch, settled, logsConfigured, mainpc, pending, exitKind, outcome, held,
                   channels, activated, loadFailed, notices, user, readyEvt,
                   conn, elapsed, relStarts, intr>>

Next ==
    \/ MainEarly
    \/ BotStart
    \/ AcquireSettle
    \/ BotAfterGather
    \/ BotSendStart
    \/ BotUpdates
    \/ BotIdentity
    \/ BotReady
    \/ BotServeEnd
    \/ ProcessCommands
    \/ ReadyTaskDone
    \/ MainResumeWait
    \/ MainSendReady
    \/ MainAwaitBot
    \/ MainSendShutdown
    \/ ReleaseSettle
    \/ Tick
    \/ MainReleaseDone
    \/ ReleaseTimeout
    \/ Interrupt
    \/ ProcExit

Spec == Init /\ [][Next]_vars

\* The event loop runs every callback that is ready and its clock advances;
\* the webhook request of the shutdown notice ends (the HTTP session has a
\* total timeout of its own).
FairSpec ==
    /\ Spec
    /\ WF_vars(MainSendShutdown)
    /\ WF_vars(Tick)
    /\ WF_vars(ReleaseTimeout)
    /\ WF_vars(MainReleaseDone)

TypeOK ==
    /\ logsConfigured \in BOOLEAN
    /\ mainpc \in {"early", "wait", "send_ready", "await_bot", "send_shutdown",
                   "release", "exited"}
    /\ pending \in {"none", "cancelled"}
    /\ exitKind \in {"none", "return", "error", "timeout", "cancelled"}
    /\ outcome \in {"Starting", "Ready", "FailedBeforeReady"}
    /\ botpc \in {"idle", "created", "gather", "send_start", "updates", "serve",
                  "done"}
    /\ botResult \in {"none", "ok", "error", "cancelled"}
    /\ acq \in [Acquisitions -> {"idle", "pending", "ok", "failed", "cancelled"}]
    /\ held \in [Handles -> {"none", "held", "released"}]
    /\ channels \in BOOLEAN
    /\ Range(activated) \subseteq Modules
    /\ loadFailed \in 0..(NCogs + NExts)
    /\ Range(notices) \subseteq {"starting", "ready", "shutdown"}
    /\ user \in BOOLEAN
    /\ readyEvt \in BOOLEAN
    /\ readypc \in {"idle", "waiting", "done", "cancelled"}
    /\ Range(settled) \subseteq {"bot_task", "ready_task"}
    /\ conn \in {"none", "open", "closed"}
    /\ rel \in [Releases -> {"idle", "pending", "ok", "failed", "cancelled"}]
    /\ elapsed \in 0..Timeout
    /\ relStarts \in Nat
    /\ intr \in 0..2
    /\ procExit \in {"running", "clean", "forced", "crash"}
    /\ dispatch.msg \in Messages
    /\ dispatch.prefix \in {"", "-", "!"}

----------------------------------------------------------------------------
AllModules == CogList \o ExtList

Sent(n) == n \in Range(notices)

\* C1: if one acquisition of TTSBot.start fails, then once the process has
\* exited no backend handle is still held (every sibling was released).
C1_NoLeakOnFailedStart ==
    (procExit # "running" /\ intr = 0 /\ logsConfigured /\ GatherRaises(acq))
        => \A h \in Handles : held[h] # "held"

\* C2: when the race resolved to FailedBeforeReady after both acquisitions
\* succeeded, the release gather has been started by the time _real_main
\* has returned, also when no user identity was ever produced.
C2_ReleaseAfterFailedBeforeReady ==
    (mainpc = "exited" /\ outcome = "FailedBeforeReady" /\ GatherReturns(acq)
     /\ ~user)
        => relStarts >= 1

\* C3: once the finally block has begun the shutdown (the notice is being
\* sent or the release gather is pending), _real_main eventually returns
\* control (or the process is gone); it leaves the release by the timeout
\* only when the 5 units have passed, and the releases were started once,
\* never retried.
C3_ReleaseBounded ==
    /\ (mainpc \in {"send_shutdown", "release"})
         ~> (mainpc = "exited" \/ procExit # "running")
    /\ [](exitKind = "timeout" => elapsed = Timeout /\ relStarts = 1)

C3_Witness ==
    /\ mainpc = "exited"
    /\ exitKind = "timeout"
    /\ \E r \in Releases : rel[r] = "cancelled"

\* C4: the release gather is started at most once in the life of the
\* process, whatever triggers of termination occur together.
C4_ReleaseAtMostOnce == relStarts <= 1

C4_Witness ==
    /\ relStarts = 1
    /\ botResult = "error"
    /\ intr >= 1
    /\ mainpc = "exited"

\* C5: if bot_task is done and readiness was never signalled, no ready
\* notice was sent, _real_main is not (and was not) in its ready branch, the
\* outcome is not Ready, and unless _real_main still waits or was
\* interrupted the outcome is FailedBeforeReady.
C5_FailedBeforeReady ==
    (botpc = "done" /\ ~readyEvt)
        => /\ ~Sent("ready")
           /\ mainpc \notin {"send_ready", "await_bot"}
           /\ outcome # "Ready"
           /\ (mainpc # "wait" /\ intr = 0) => outcome = "FailedBeforeReady"

C5_Witness ==
    /\ outcome = "FailedBeforeReady"
    /\ botResult \in {"ok", "error"}
    /\ ~readyEvt
    /\ mainpc = "exited"

\* C6: if ready_task completed, and did so before bot_task finished, then
\* once the race is resolved (without an interrupt) the outcome is Ready.
C6_ReadyWhenHandshakeSucceeds ==
    (outcome # "Starting" /\ intr = 0 /\ settled # <<>>
     /\ settled[1] = "ready_task")
        => outcome = "Ready"

\* C7: the modules whose activation was called are a prefix of the list cogs
\* then extensions; if the activation of a module failed it is the last one
\* called, the starting notice is not sent and the connection never starts.
C7_LoadOrderAbort ==
    /\ \E n \in 0..Len(AllModules) : activated = SubSeq(AllModules, 1, n)
    /\ loadFailed # 0 =>
         /\ activated # <<>>
         /\ activated[Len(activated)] = loadFailed
         /\ ~Sent("starting")
         /\ conn = "none"
         /\ botpc = "done" /\ botResult = "error"

C7_Witness ==
    /\ loadFailed # 0
    /\ Len(activated) < Len(AllModules)
    /\ Len(activated) > 1
    /\ mainpc = "exited"

\* C8: while the connect-and-serve phase runs every handle has been
\* acquired, the sinks are built and all modules of both tiers are loaded;
\* no module is activated before both acquisitions have succeeded.
C8_ServeOnlyWhenInitialised ==
    /\ botpc = "serve" =>
         /\ \A h \in Handles : held[h] # "none"
         /\ GatherReturns(acq)
         /\ channels
         /\ activated = AllModules /\ loadFailed = 0
    /\ activated # <<>> =>
         /\ GatherReturns(acq)
         /\ \A h \in Handles : held[h] # "none"

C8_Witness ==
    /\ botpc = "serve"
    /\ readyEvt
    /\ activated = AllModules

\* C9: when one of the three releases has failed (and no interrupt came),
\* _real_main does not end with an error.
C9_ReleaseFailureNotEscalated ==
    (mainpc = "exited" /\ intr = 0 /\ \E r \in Releases : rel[r] = "failed")
        => exitKind # "error"

\* C10 as claimed: (with no interrupt) the shutdown notice is sent only if
\* readiness was signalled, and never when the outcome is FailedBeforeReady.
C10_ShutdownNoticeOnlyAfterReady ==
    (Sent("shutdown") /\ intr = 0)
        => (readyEvt /\ outcome # "FailedBeforeReady")

\* C10 as amended: the shutdown notice is sent (or being sent) only if
\* bot.user is set; with no user identity no shutdown notice is sent.
C10_ShutdownNoticeNeedsIdentity ==
    (Sent("shutdown") \/ mainpc \in {"send_shutdown", "release"}) => user

C10_Witness ==
    /\ Sent("shutdown")
    /\ intr = 0
    /\ outcome = "FailedBeforeReady"
    /\ ~readyEvt
    /\ user

\* C11: with no "logs" channel configured, no handle is ever created, no
\* acquisition is launched and no module is activated.
C11_NoLogsFailsBeforeAcquisition ==
    ~logsConfigured =>
        /\ \A h \in Handles : held[h] = "none"
        /\ \A a \in Acquisitions : acq[a] = "idle"
        /\ activated = <<>>

\* C12: a message of a bot author, or of an unavailable guild, never has its
\* command invoked; for a bot author no context is built.
C12_NoInvokeForBotOrUnavailable ==
    dispatch.seen =>
        /\ (dispatch.msg.authorBot \/ dispatch.msg.guild = "unavailable")
             => ~dispatch.invoked
        /\ dispatch.msg.authorBot => ~dispatch.ctx

C12_Witness ==
    /\ dispatch.seen
    /\ ~dispatch.msg.authorBot
    /\ dispatch.msg.guild = "unavailable"
    /\ dispatch.ctx
    /\ ~dispatch.invoked

C14_FirstSettledWins ==
    (outcome # "Starting" /\ intr = 0 /\ settled # <<>>)
        => outcome = (IF settled[1] = "ready_task" THEN "Ready"
                      ELSE "FailedBeforeReady")

\* C15: when bot_task ended with an error after the ready notice and
\* _real_main has returned (with no interrupt), the shutdown notice was sent
\* and the release gather was started.
C15_ServeErrorRoutedToShutdown ==
    (mainpc = "exited" /\ intr = 0 /\ outcome = "Ready" /\ Sent("ready")
     /\ botResult = "error")
        => (Sent("shutdown") /\ relStarts = 1)

\* C16: after Ready and with no interrupt, bot.close() is not called while
\* bot_task is still serving.
C16_ServeNotClosedByOrchestrator ==
    (outcome = "Ready" /\ intr = 0 /\ botpc = "serve")
        => rel["conn"] = "idle"

\* C17: (with no interrupt) once _real_main has returned with bot.user set
\* the release gather was started, whatever became of the shutdown notice;
\* and a release is cancelled only at the deadline, not because a sibling
\* failed.
C17_ShutdownStepsIndependent ==
    /\ (mainpc = "exited" /\ intr = 0 /\ user) => relStarts = 1
    /\ (intr = 0 /\ \E r \in Releases : rel[r] = "cancelled")
         => elapsed = Timeout

\* C18: (with no interrupt) TTSBot.start is past the gather only when no
\* acquisition is still pending.
C18_AllAcquisitionsSettled ==
    (intr = 0 /\ logsConfigured /\ Running
     /\ botpc \notin {"idle", "created", "gather"})
        => \A a \in Acquisitions : acq[a] # "pending"

\* C19: the outcome changes only once, from Starting, when _real_main
\* resumes from asyncio.wait, so Ready and FailedBeforeReady never follow
\* each other; and when _real_main is past asyncio.wait without an interrupt
\* one of the two has been produced.
C19_OutcomeDecidedOnce ==
    /\ [][outcome' # outcome => (outcome = "Starting" /\ mainpc = "wait")]_vars
    /\ []((intr = 0 /\ botpc # "idle" /\ mainpc # "wait")
            => outcome \in {"Ready", "FailedBeforeReady"})

C19_Witness ==
    /\ outcome = "Ready"
    /\ botpc = "done" /\ botResult = "error"
    /\ mainpc = "exited"

\* When the notices are sent: the starting notice with everything acquired
\* and loaded and before the connection is begun, the shutdown notice before
\* the releases are started.
NoticeTiming ==
    /\ Sent("starting") =>
         /\ GatherReturns(acq)
         /\ \A h \in Handles : held[h] # "none"
         /\ activated = AllModules /\ loadFailed = 0
    /\ conn # "none" => Sent("starting")
    /\ (relStarts >= 1 \/ \E r \in Releases : rel[r] # "idle")
         => Sent("shutdown")

\* C20 as claimed: (with no interrupt) the notices are a prefix of starting,
\* ready, shutdown (the shutdown notice only after both others), each at
\* most once.
C20_NoticeOrder ==
    /\ intr = 0 => notices \in {<<>>, <<"starting">>, <<"starting", "ready">>,
                                <<"starting", "ready", "shutdown">>}
    /\ NoticeTiming

\* C20 as amended: each notice at most once, the ready notice and the
\* shutdown notice only after the starting notice, the shutdown notice after
\* the ready notice if there is one.
C20_NoticeOrderAmended ==
    /\ notices \in {<<>>, <<"starting">>, <<"starting", "ready">>,
                    <<"starting", "shutdown">>,
                    <<"starting", "ready", "shutdown">>}
    /\ NoticeTiming

C20_Witness ==
    /\ notices = <<"starting", "ready", "shutdown">>
    /\ relStarts = 1
    /\ mainpc = "exited"
====
